---------------------------- MODULE Spec2Model ----------------------------
(***************************************************************************)
(* Model of els_utils.results: SearchResults and ExplainResult, two        *)
(* read-only wrappers around a parsed JSON response body.                  *)
(*                                                                         *)
(* JSON objects (Python dicts) are functions from their keys to their      *)
(* values, so an absent key is a key outside the DOMAIN.  The `_source`    *)
(* mappings of the hits and the lists returned by get_breakdown are        *)
(* objects with an identity: they live in the heaps `dicts` and `lists`    *)
(* and are referred to by address, so that "same object", "copy" and       *)
(* "fresh list" are things the model can tell apart.  A `_source` mapping  *)
(* also keeps the insertion order of its keys (pandas reads it).           *)
(***************************************************************************)
EXTENDS Naturals, Sequences, FiniteSets, TLC

VARIABLES
  cls,        \* the class of the instance: "SearchResults" or "ExplainResult"
  response,   \* self._response: the wrapped response (status code and body)
  json,       \* self._json: the parsed body; a hit's "_source" is an address
  dicts,      \* heap of dict objects: the hits' sources and returned copies
  lists,      \* heap of list objects the caller got from get_breakdown
  altered,    \* addresses of the lists the caller has altered since
  op,         \* the last call: [name, args]
  ret         \* its outcome: a returned value, None, or a raised exception

vars == <<cls, response, json, dicts, lists, altered, op, ret>>

----------------------------------------------------------------------------
(* Bounds of the model *)

MaxHits == 2      \* longest hits array
MaxNodes == 3     \* most nodes of a generated explanation tree
MaxLists == 2     \* most breakdown lists the caller holds on to

----------------------------------------------------------------------------
(* Python values *)

EmptyDict == [k \in {} |-> 0]

Range(s) == { s[i] : i \in DOMAIN s }

Restrict(f, S) == [x \in DOMAIN f \cap S |-> f[x]]

\* dict.get(key, default)
Get(d, key, default) == IF key \in DOMAIN d THEN d[key] ELSE default

Return(v) == [kind |-> "return", value |-> v]
ReturnNone == [kind |-> "none"]
Raise(e) == [kind |-> "raise", exc |-> e]

\* An insertion-ordered dict: its keys in order, and its key -> value map.
OD(keys, val) == [keys |-> keys, val |-> val]

\* Variant of ODSet that leaves a key already present alone (setdefault).
ODSet_keep_existing(d, key, value) ==
  [keys |-> IF key \in DOMAIN d.val THEN d.keys ELSE Append(d.keys, key),
   val  |-> d.val @@ (key :> value)]

\* d[key] = value on an ordered dict: a new key goes last, a present key
\* keeps its place and gets the new value.
ODSet(d, key, value) ==
  [keys |-> IF key \in DOMAIN d.val THEN d.keys ELSE Append(d.keys, key),
   val  |-> (key :> value) @@ d.val]

\* The least address not in use in a heap.
NewAddr(heap) ==
  CHOOSE a \in 1..(Cardinality(DOMAIN heap) + 1) :
    /\ a \notin DOMAIN heap
    /\ \A b \in 1..(a - 1) : b \in DOMAIN heap

----------------------------------------------------------------------------
(* Response bodies of a search *)

Ids == {"d1", "d2"}
Scores == {1}

SourceSet ==
  { OD(<<>>, EmptyDict),
    OD(<<"a">>, "a" :> 1),
    OD(<<"_id", "a", "_score">>, ("_id" :> "old") @@ ("a" :> 1) @@ ("_score" :> 9)) }

MakeHit(i, s, src) == ("_id" :> i) @@ ("_score" :> s) @@ ("_source" :> src)

WellFormedHits == { MakeHit(i, s, src) : i \in Ids, s \in Scores, src \in SourceSet }

\* Hits of a partial response: one of the three fields is missing, or all.
PartialHits ==
  { Restrict(MakeHit("d1", 1, OD(<<"a">>, "a" :> 1)), {"_id", "_score", "_source"} \ {k}) :
      k \in {"_id", "_score", "_source"} } \cup {EmptyDict}

HitSet == WellFormedHits \cup PartialHits

HitLists == UNION { [1..n -> HitSet] : n \in 0..MaxHits }

TotalSet == { EmptyDict, "value" :> 2 }

HitsSectionSet ==
  { t @@ h : t \in {EmptyDict} \cup { "total" :> x : x \in TotalSet },
             h \in {EmptyDict} \cup { "hits" :> l : l \in HitLists } }

SearchBodies == {EmptyDict} \cup { "hits" :> s : s \in HitsSectionSet }

SearchResponses == [status_code : {200}, body : SearchBodies]

\* response.json(): the parsed body.  The i-th hit's `_source` mapping
\* becomes the dict object at address i.
RawHits(body) == Get(Get(body, "hits", EmptyDict), "hits", <<>>)

ParseHit(h, i) == IF "_source" \in DOMAIN h THEN ("_source" :> i) @@ h ELSE h

ParseJson(body) ==
  IF "hits" \in DOMAIN body /\ "hits" \in DOMAIN body["hits"]
  THEN ("hits" :> (("hits" :> [i \in 1..Len(RawHits(body)) |-> ParseHit(RawHits(body)[i], i)])
                    @@ body["hits"])) @@ body
  ELSE body

ParseDicts(body) ==
  [i \in { k \in 1..Len(RawHits(body)) : "_source" \in DOMAIN RawHits(body)[k] }
     |-> RawHits(body)[i]["_source"]]

----------------------------------------------------------------------------
(* SearchResults *)

status_code(r) == r.status_code

raw(r) == r

hits(j) == Get(Get(j, "hits", EmptyDict), "hits", <<>>)

\* Variant of total that counts the hits of the page instead.
total_count_hits(j) == Len(hits(j))

total(j) == Get(Get(Get(j, "hits", EmptyDict), "total", EmptyDict), "value", 0)

\* The addresses of the dict objects the parsed body holds.
BodyAddrs(j) == { hits(j)[i]["_source"] : i \in { k \in 1..Len(hits(j)) : "_source" \in DOMAIN hits(j)[k] } }

\* The loop of get_sources when a flag is set; a missing key raises KeyError
\* at the hit that lacks it.
RECURSIVE SourcesLoop(_, _, _, _, _, _)

\* Variant of the loop that merges into the hit's own `_source` (no copy).
SourcesLoop_in_place(hs, i, results, heap, include_id, include_score) ==
  IF i > Len(hs) THEN [ret |-> Return(results), heap |-> heap]
  ELSE IF "_source" \notin DOMAIN hs[i] THEN [ret |-> Raise("KeyError"), heap |-> heap]
  ELSE IF include_id /\ "_id" \notin DOMAIN hs[i] THEN [ret |-> Raise("KeyError"), heap |-> heap]
  ELSE IF include_score /\ "_score" \notin DOMAIN hs[i] THEN [ret |-> Raise("KeyError"), heap |-> heap]
  ELSE LET item == hs[i]["_source"]
           withId == IF include_id THEN ODSet(heap[item], "_id", hs[i]["_id"]) ELSE heap[item]
           withScore == IF include_score THEN ODSet(withId, "_score", hs[i]["_score"]) ELSE withId
       IN SourcesLoop(hs, i + 1, Append(results, item), (item :> withScore) @@ heap,
                      include_id, include_score)

SourcesLoop(hs, i, results, heap, include_id, include_score) ==
  IF i > Len(hs) THEN [ret |-> Return(results), heap |-> heap]
  ELSE IF "_source" \notin DOMAIN hs[i] THEN [ret |-> Raise("KeyError"), heap |-> heap]
  ELSE IF include_id /\ "_id" \notin DOMAIN hs[i] THEN [ret |-> Raise("KeyError"), heap |-> heap]
  ELSE IF include_score /\ "_score" \notin DOMAIN hs[i] THEN [ret |-> Raise("KeyError"), heap |-> heap]
  ELSE LET item == NewAddr(heap)
           copy == heap[hs[i]["_source"]]
           withId == IF include_id THEN ODSet(copy, "_id", hs[i]["_id"]) ELSE copy
           withScore == IF include_score THEN ODSet(withId, "_score", hs[i]["_score"]) ELSE withId
       IN SourcesLoop(hs, i + 1, Append(results, item), (item :> withScore) @@ heap,
                      include_id, include_score)

\* Variant of get_sources that copies the sources also when no flag is set.
get_sources_always_copy(j, heap, include_id, include_score) ==
  SourcesLoop(hits(j), 1, <<>>, heap, include_id, include_score)

\* get_sources: [ret, heap], the outcome and the heap after the call.
get_sources(j, heap, include_id, include_score) ==
  IF ~include_id /\ ~include_score
  THEN IF \E i \in 1..Len(hits(j)) : "_source" \notin DOMAIN hits(j)[i]
       THEN [ret |-> Raise("KeyError"), heap |-> heap]
       ELSE [ret |-> Return([i \in 1..Len(hits(j)) |-> hits(j)[i]["_source"]]), heap |-> heap]
  ELSE SourcesLoop(hits(j), 1, <<>>, heap, include_id, include_score)

\* Variant of get_ids that drops an identifier it has already listed.
RECURSIVE Dedupe(_, _)
Dedupe(s, seen) ==
  IF s = <<>> THEN seen
  ELSE Dedupe(Tail(s), IF Head(s) \in Range(seen) THEN seen ELSE Append(seen, Head(s)))

get_ids_unique(j) ==
  IF \E i \in 1..Len(hits(j)) : "_id" \notin DOMAIN hits(j)[i]
  THEN Raise("KeyError")
  ELSE Return(Dedupe([i \in 1..Len(hits(j)) |-> hits(j)[i]["_id"]], <<>>))

get_ids(j) ==
  IF \E i \in 1..Len(hits(j)) : "_id" \notin DOMAIN hits(j)[i]
  THEN Raise("KeyError")
  ELSE Return([i \in 1..Len(hits(j)) |-> hits(j)[i]["_id"]])

\* pandas.DataFrame(list of dicts): the columns are the keys in order of first
\* appearance; a key a row lacks is a missing cell (NaN) of that row.
RECURSIVE AddKeys(_, _)
AddKeys(cols, keys) ==
  IF keys = <<>> THEN cols
  ELSE AddKeys(IF Head(keys) \in Range(cols) THEN cols ELSE Append(cols, Head(keys)), Tail(keys))

RECURSIVE FrameColumns(_, _)
FrameColumns(rows, cols) ==
  IF rows = <<>> THEN cols ELSE FrameColumns(Tail(rows), AddKeys(cols, Head(rows).keys))

DataFrame(rows) ==
  [columns |-> FrameColumns(rows, <<>>), data |-> [i \in 1..Len(rows) |-> rows[i].val]]

\* df[columns] with a list of names: KeyError when a name is no column.
Project(df, names) ==
  IF \E k \in 1..Len(names) : names[k] \notin Range(df.columns)
  THEN Raise("KeyError")
  ELSE Return([columns |-> names,
               data |-> [i \in 1..Len(df.data) |-> Restrict(df.data[i], Range(names))]])

\* The `columns` argument: None, or a list of names.
NoColumns == [isNone |-> TRUE, names |-> <<>>]
Columns(names) == [isNone |-> FALSE, names |-> names]

\* Python's truth value of the argument: None and the empty list are false.
Truthy(columns) == ~columns.isNone /\ Len(columns.names) > 0

to_dataframe(j, heap, columns, include_id, include_score) ==
  LET r == get_sources(j, heap, include_id, include_score)
  IN IF r.ret.kind = "raise" THEN r.ret
     ELSE LET df == DataFrame([i \in 1..Len(r.ret.value) |-> r.heap[r.ret.value[i]]])
          IN IF Truthy(columns) THEN Project(df, columns.names) ELSE Return(df)

----------------------------------------------------------------------------
(* Calls on a SearchResults.  The heap keeps the dict objects the instance *)
(* holds and those of the value returned last; the caller lets go of an    *)
(* earlier result when it makes the next call.                             *)

Call(name, args) == [name |-> name, args |-> args]

Held == Restrict(dicts, BodyAddrs(json))

CallStatusCode ==
  /\ cls = "SearchResults"
  /\ op' = Call("status_code", <<>>)
  /\ ret' = Return(status_code(response))
  /\ dicts' = Held
  /\ UNCHANGED <<cls, response, json, lists, altered>>

CallRaw ==
  /\ cls = "SearchResults"
  /\ op' = Call("raw", <<>>)
  /\ ret' = Return(raw(response))
  /\ dicts' = Held
  /\ UNCHANGED <<cls, response, json, lists, altered>>

CallHits ==
  /\ cls = "SearchResults"
  /\ op' = Call("hits", <<>>)
  /\ ret' = Return(hits(json))
  /\ dicts' = Held
  /\ UNCHANGED <<cls, response, json, lists, altered>>

CallTotal ==
  /\ cls = "SearchResults"
  /\ op' = Call("total", <<>>)
  /\ ret' = Return(total(json))
  /\ dicts' = Held
  /\ UNCHANGED <<cls, response, json, lists, altered>>

CallGetSources(include_id, include_score) ==
  LET r == get_sources(json, Held, include_id, include_score)
  IN /\ cls = "SearchResults"
     /\ op' = Call("get_sources", [include_id |-> include_id, include_score |-> include_score])
     /\ ret' = r.ret
     /\ dicts' = Restrict(r.heap, BodyAddrs(json) \cup
                            (IF r.ret.kind = "return" THEN Range(r.ret.value) ELSE {}))
     /\ UNCHANGED <<cls, response, json, lists, altered>>

CallGetIds ==
  /\ cls = "SearchResults"
  /\ op' = Call("get_ids", <<>>)
  /\ ret' = get_ids(json)
  /\ dicts' = Held
  /\ UNCHANGED <<cls, response, json, lists, altered>>

ColumnsSet ==
  { NoColumns, Columns(<<>>), Columns(<<"a">>), Columns(<<"x">>), Columns(<<"_id", "a">>) }

CallToDataframe(columns, include_id, include_score) ==
  /\ cls = "SearchResults"
  /\ op' = Call("to_dataframe",
                [columns |-> columns, include_id |-> include_id, include_score |-> include_score])
  /\ ret' = to_dataframe(json, Held, columns, include_id, include_score)
  /\ dicts' = Held
  /\ UNCHANGED <<cls, response, json, lists, altered>>

InitSearch ==
  /\ cls = "SearchResults"
  /\ response \in SearchResponses
  /\ json = ParseJson(response.body)
  /\ dicts = ParseDicts(response.body)
  /\ lists = EmptyDict
  /\ altered = {}
  /\ op = Call("__init__", <<>>)
  /\ ret = ReturnNone


----------------------------------------------------------------------------
(* Response bodies of an explain request *)

NodeLabels ==
  { ("value" :> 4) @@ ("description" :> "a"), "description" :> "b", "value" :> 6 }

\* The explanation trees of exactly n nodes: every node carries one of the
\* labels, an inner node a `details` list, a leaf an empty one or none.
RECURSIVE TreesOfSize(_), ForestsOfSize(_)
TreesOfSize(n) ==
  (IF n = 1 THEN NodeLabels ELSE {})
    \cup { l @@ ("details" :> f) : l \in NodeLabels, f \in ForestsOfSize(n - 1) }

ForestsOfSize(m) ==
  IF m = 0 THEN { <<>> }
  ELSE UNION { { <<t>> \o f : t \in TreesOfSize(k), f \in ForestsOfSize(m - k) } : k \in 1..m }

Node(value, description, details) ==
  ("value" :> value) @@ ("description" :> description) @@ ("details" :> details)

Leaf(value, description) == ("value" :> value) @@ ("description" :> description)

\* root(10)[a(4), b(6)[c(6)]]
ExampleTree == Node(10, "root", << Leaf(4, "a"), Node(6, "b", << Leaf(6, "c") >>) >>)

ExampleBreakdown == << <<0, 10, "root">>, <<1, 4, "a">>, <<1, 6, "b">>, <<2, 6, "c">> >>

TreeSet == UNION { TreesOfSize(n) : n \in 1..MaxNodes } \cup {ExampleTree}

ExplainBodies == {EmptyDict} \cup { "explanation" :> t : t \in TreeSet }

ExplainResponses == [status_code : {200}, body : ExplainBodies]

----------------------------------------------------------------------------
(* ExplainResult *)

explanation(j) == Get(j, "explanation", EmptyDict)

score(j) ==
  IF "value" \in DOMAIN explanation(j) THEN Return(explanation(j)["value"]) ELSE ReturnNone

\* walk(node, depth) of get_breakdown, with the list it appends to passed
\* along: the node's row, then the rows of its details, in their order.
RECURSIVE walk(_, _, _), walkDetails(_, _, _, _)

\* Variant of walk that returns at once on an empty node.
walk_skip_empty(node, depth, result) ==
  IF node = EmptyDict THEN result
  ELSE walkDetails(Get(node, "details", <<>>), 1, depth,
                   Append(result, <<depth, Get(node, "value", 0), Get(node, "description", "")>>))

\* Variant of the loop over the details that goes through them backwards.
walkDetails_reversed(details, i, depth, result) ==
  IF i > Len(details) THEN result
  ELSE walkDetails(details, i + 1, depth, walk(details[Len(details) + 1 - i], depth + 1, result))

walk(node, depth, result) ==
  LET desc == Get(node, "description", "")
      val == Get(node, "value", 0)
  IN walkDetails(Get(node, "details", <<>>), 1, depth, Append(result, <<depth, val, desc>>))

walkDetails(details, i, depth, result) ==
  IF i > Len(details) THEN result
  ELSE walkDetails(details, i + 1, depth, walk(details[i], depth + 1, result))

\* Variant of get_breakdown that hands out the list of an earlier call.
get_breakdown_cached(j, heap) ==
  IF DOMAIN heap # {}
  THEN [ret |-> Return(CHOOSE a \in DOMAIN heap : TRUE), heap |-> heap]
  ELSE [ret |-> Return(1), heap |-> (1 :> walk(explanation(j), 0, <<>>)) @@ heap]

\* get_breakdown: [ret, heap]; the rows are in a new list object.
get_breakdown(j, heap) ==
  LET result == NewAddr(heap)
  IN [ret |-> Return(result), heap |-> (result :> walk(explanation(j), 0, <<>>)) @@ heap]

\* ExplainResult.to_dataframe: the rows under three column names.
explain_to_dataframe(j, heap) ==
  LET r == get_breakdown(j, heap)
  IN Return([columns |-> <<"depth", "score", "description">>, data |-> r.heap[r.ret.value]])

----------------------------------------------------------------------------
(* Calls on an ExplainResult, and what the caller does to the lists it got *)

CallExplanation ==
  /\ cls = "ExplainResult"
  /\ op' = Call("explanation", <<>>)
  /\ ret' = Return(explanation(json))
  /\ UNCHANGED <<cls, response, json, dicts, lists, altered>>

CallScore ==
  /\ cls = "ExplainResult"
  /\ op' = Call("score", <<>>)
  /\ ret' = score(json)
  /\ UNCHANGED <<cls, response, json, dicts, lists, altered>>

CallGetBreakdown ==
  /\ cls = "ExplainResult"
  /\ Cardinality(DOMAIN lists) < MaxLists
  /\ LET r == get_breakdown(json, lists)
     IN /\ ret' = r.ret
        /\ lists' = r.heap
  /\ op' = Call("get_breakdown", <<>>)
  /\ UNCHANGED <<cls, response, json, dicts, altered>>

CallExplainToDataframe ==
  /\ cls = "ExplainResult"
  /\ op' = Call("to_dataframe", <<>>)
  /\ ret' = explain_to_dataframe(json, lists)
  /\ UNCHANGED <<cls, response, json, dicts, lists, altered>>

\* The caller appends a row of its own to a list it holds.
ExtraRow == <<0, 0, "extra">>

CallerAppend(a) ==
  /\ cls = "ExplainResult"
  /\ a \in DOMAIN lists
  /\ a \notin altered
  /\ lists' = [lists EXCEPT ![a] = Append(@, ExtraRow)]
  /\ altered' = altered \cup {a}
  /\ op' = Call("append", <<>>)
  /\ ret' = ReturnNone
  /\ UNCHANGED <<cls, response, json, dicts>>

InitExplain ==
  /\ cls = "ExplainResult"
  /\ response \in ExplainResponses
  /\ json = response.body
  /\ dicts = EmptyDict
  /\ lists = EmptyDict
  /\ altered = {}
  /\ op = Call("__init__", <<>>)
  /\ ret = ReturnNone

Init == InitSearch \/ InitExplain

Next ==
  \/ CallStatusCode
  \/ CallRaw
  \/ CallHits
  \/ CallTotal
  \/ \E include_id \in BOOLEAN, include_score \in BOOLEAN :
        CallGetSources(include_id, include_score)
  \/ CallGetIds
  \/ \E columns \in ColumnsSet, include_id \in BOOLEAN, include_score \in BOOLEAN :
        CallToDataframe(columns, include_id, include_score)
  \/ CallExplanation
  \/ CallScore
  \/ CallGetBreakdown
  \/ CallExplainToDataframe
  \/ \E a \in 1..MaxLists : CallerAppend(a)

Spec == Init /\ [][Next]_vars

----------------------------------------------------------------------------
(* What the claims are stated with *)

IsCall(c, name) == cls = c /\ op.name = name

Returned == ret.kind = "return"

\* The hits array of the body as the server sent it (sources inline).
BodyHits == RawHits(response.body)

HitsAbsent == "hits" \notin DOMAIN response.body \/ "hits" \notin DOMAIN response.body["hits"]

\* The keys get_sources merges in under the given flags.
MergedKeys(include_id, include_score) ==
  (IF include_id THEN {"_id"} ELSE {}) \cup (IF include_score THEN {"_score"} ELSE {})

\* Every hit carries the fields a call of get_sources with these flags reads.
HitsCarry(include_id, include_score) ==
  \A i \in 1..Len(BodyHits) :
    /\ "_source" \in DOMAIN BodyHits[i]
    /\ include_id => "_id" \in DOMAIN BodyHits[i]
    /\ include_score => "_score" \in DOMAIN BodyHits[i]

\* The nodes of a tree, each named by its path: the positions to follow in
\* the `details` lists, from the root.
Details(node) == Get(node, "details", <<>>)

RECURSIVE Paths(_)
Paths(node) ==
  { <<>> } \cup UNION { { <<i>> \o p : p \in Paths(Details(node)[i]) } : i \in 1..Len(Details(node)) }

RECURSIVE NodeAt(_, _)
NodeAt(node, p) == IF p = <<>> THEN node ELSE NodeAt(Details(node)[Head(p)], Tail(p))

\* p comes before q in pre-order: p is an ancestor of q, or at the first
\* position where they part p takes the earlier sibling.
Before(p, q) ==
  /\ p # q
  /\ \/ Len(p) < Len(q) /\ SubSeq(q, 1, Len(p)) = p
     \/ \E k \in 1..Len(p) :
          /\ k <= Len(q)
          /\ SubSeq(p, 1, k - 1) = SubSeq(q, 1, k - 1)
          /\ p[k] < q[k]

Rank(tree, p) == 1 + Cardinality({ q \in Paths(tree) : Before(q, p) })

RowOf(tree, p) ==
  <<Len(p), Get(NodeAt(tree, p), "value", 0), Get(NodeAt(tree, p), "description", "")>>

\* The pre-order flattening of a tree, row by row.
PreOrder(tree) ==
  [k \in 1..Cardinality(Paths(tree)) |->
     RowOf(tree, CHOOSE p \in Paths(tree) : Rank(tree, p) = k)]

Tree == Get(response.body, "explanation", EmptyDict)

----------------------------------------------------------------------------
(* The claims *)

\* C1: get_breakdown returns the pre-order depth-first flattening of the
\* explanation tree: one row (depth, value, description) per node, the root
\* first at depth 0, a node's depth its parent's + 1, a subtree's rows right
\* after its root's row, siblings in the order of `details`; the tree
\* root(10)[a(4), b(6)[c(6)]] gives (0,10,root), (1,4,a), (1,6,b), (2,6,c).
C1_PreOrderFlattening ==
  IsCall("ExplainResult", "get_breakdown") =>
    /\ Returned
    /\ Len(lists[ret.value]) = Cardinality(Paths(Tree))
    /\ \A p \in Paths(Tree) : lists[ret.value][Rank(Tree, p)] = RowOf(Tree, p)
    /\ Tree = ExampleTree => lists[ret.value] = ExampleBreakdown

C1_Witness ==
  /\ IsCall("ExplainResult", "get_breakdown")
  /\ Tree = ExampleTree
  /\ lists[ret.value] = ExampleBreakdown

\* C2: with include_id or include_score set, get_sources returns, per hit and
\* in hit order, a new mapping: a copy of the hit's `_source` with `_id` set
\* to the hit's identifier (if include_id) and `_score` to its score (if
\* include_score), overwriting such a field of the source; every other source
\* field is carried over unchanged.
C2_MergedSources ==
  (/\ IsCall("SearchResults", "get_sources")
   /\ op.args.include_id \/ op.args.include_score
   /\ HitsCarry(op.args.include_id, op.args.include_score))
  =>
    /\ Returned
    /\ Len(ret.value) = Len(BodyHits)
    /\ \A i \in 1..Len(BodyHits) :
         LET item == dicts[ret.value[i]].val
             source == BodyHits[i]["_source"].val
             merged == MergedKeys(op.args.include_id, op.args.include_score)
         IN /\ ret.value[i] \notin BodyAddrs(json)
            /\ \A k \in 1..Len(BodyHits) : k # i => ret.value[k] # ret.value[i]
            /\ DOMAIN item = DOMAIN source \cup merged
            /\ op.args.include_id => item["_id"] = BodyHits[i]["_id"]
            /\ op.args.include_score => item["_score"] = BodyHits[i]["_score"]
            /\ \A f \in DOMAIN source \ merged : item[f] = source[f]

C2_Witness ==
  /\ IsCall("SearchResults", "get_sources")
  /\ op.args.include_id /\ op.args.include_score
  /\ Returned
  /\ \E i \in 1..Len(BodyHits) :
       /\ "_id" \in DOMAIN BodyHits[i]["_source"].val
       /\ dicts[ret.value[i]].val["_id"] = "d2"
       /\ dicts[ret.value[i]].val["a"] = 1

\* C3: with both flags false, get_sources returns, in hit order, the hits'
\* raw `_source` mappings, no key added or removed, and each element is the
\* very object the parsed body holds.
C3_RawSourcesShared ==
  (/\ IsCall("SearchResults", "get_sources")
   /\ ~op.args.include_id /\ ~op.args.include_score
   /\ HitsCarry(FALSE, FALSE))
  =>
    /\ Returned
    /\ Len(ret.value) = Len(BodyHits)
    /\ \A i \in 1..Len(BodyHits) :
         /\ ret.value[i] = hits(json)[i]["_source"]
         /\ dicts[ret.value[i]] = BodyHits[i]["_source"]

C3_Witness ==
  /\ IsCall("SearchResults", "get_sources")
  /\ ~op.args.include_id /\ ~op.args.include_score
  /\ Returned
  /\ Len(ret.value) = 2
  /\ dicts[ret.value[2]].keys = <<"_id", "a", "_score">>

\* C4 (as claimed): apart from an explicit column projection, no accessor
\* raises because a field is absent from the body.
C4_NoAccessorRaises ==
  ret.kind = "raise" =>
    /\ IsCall("SearchResults", "to_dataframe")
    /\ Truthy(op.args.columns)
    /\ HitsCarry(op.args.include_id, op.args.include_score)

\* C5 (as claimed): given any `columns` other than None, to_dataframe returns
\* a table of exactly the listed columns in the listed order, and raises a
\* key error if a listed name is a column of no row.
C5_ColumnsProjected ==
  (/\ IsCall("SearchResults", "to_dataframe")
   /\ ~op.args.columns.isNone
   /\ HitsCarry(op.args.include_id, op.args.include_score))
  =>
    LET names == op.args.columns.names
        rowKeys == UNION { DOMAIN BodyHits[i]["_source"].val
                             \cup MergedKeys(op.args.include_id, op.args.include_score) :
                           i \in 1..Len(BodyHits) }
    IN IF Range(names) \subseteq rowKeys
       THEN Returned /\ ret.value.columns = names
       ELSE ret = Raise("KeyError")

\* C6: total returns N when hits.total.value is N and 0 when the path is
\* absent at any level; it does not raise.
C6_Total ==
  IsCall("SearchResults", "total") =>
    LET body == response.body
    IN /\ Returned
       /\ ret.value =
            IF "hits" \notin DOMAIN body THEN 0
            ELSE IF "total" \notin DOMAIN body["hits"] THEN 0
            ELSE IF "value" \notin DOMAIN body["hits"]["total"] THEN 0
            ELSE body["hits"]["total"]["value"]

C6_Witness ==
  /\ IsCall("SearchResults", "total")
  /\ Returned
  /\ ret.value = 2
  /\ Len(BodyHits) = 1

\* C7: with K hits, get_ids returns K identifiers, the i-th the `_id` of the
\* i-th hit (duplicates kept); with the hits absent, the empty sequence.
C7_GetIds ==
  (/\ IsCall("SearchResults", "get_ids")
   /\ \A i \in 1..Len(BodyHits) : "_id" \in DOMAIN BodyHits[i])
  =>
    /\ Returned
    /\ Len(ret.value) = Len(BodyHits)
    /\ \A i \in 1..Len(BodyHits) : ret.value[i] = BodyHits[i]["_id"]
    /\ HitsAbsent => ret.value = <<>>

C7_Witness ==
  /\ IsCall("SearchResults", "get_ids")
  /\ Returned
  /\ ret.value = <<"d2", "d2">>

\* C8: no call on a SearchResults or an ExplainResult changes the instance:
\* the parsed body, every dict object it holds (the hits' `_source`
\* mappings), and the wrapped response stay what they were.
C8_InstanceUnchanged ==
  [][/\ cls' = cls
     /\ response' = response
     /\ json' = json
     /\ \A a \in BodyAddrs(json) : a \in DOMAIN dicts' /\ dicts'[a] = dicts[a]]_vars

C8_Witness ==
  /\ IsCall("SearchResults", "get_sources")
  /\ op.args.include_score
  /\ Returned
  /\ \E i \in 1..Len(BodyHits) : "_score" \notin DOMAIN BodyHits[i]["_source"].val

\* C9: every call of get_breakdown returns a list object of its own that
\* holds the flattening and leaves the lists returned before as they are; a
\* list the caller has appended to is never handed out again, and appending
\* to one list leaves the caller's other lists holding the flattening.
C9_IndependentResults ==
  /\ [](cls = "ExplainResult" =>
          /\ \A a \in DOMAIN lists \ altered : lists[a] = PreOrder(Tree)
          /\ \A a \in altered : lists[a] = Append(PreOrder(Tree), ExtraRow)
          /\ op.name = "get_breakdown" => ret.value \notin altered)
  /\ [][(cls = "ExplainResult" /\ op'.name = "get_breakdown") =>
          /\ ret'.value \notin DOMAIN lists
          /\ lists'[ret'.value] = PreOrder(Tree)
          /\ \A a \in DOMAIN lists : lists'[a] = lists[a]]_vars

C9_Witness ==
  /\ IsCall("ExplainResult", "get_breakdown")
  /\ altered # {}
  /\ Cardinality(DOMAIN lists) >= 2

\* C10: the breakdown has one row per node of the tree, so at least one; only
\* the first row has depth 0; a row's depth is at most the previous row's
\* + 1; an absent explanation gives the single row (0, 0, ""), a root
\* without `details` a single row at depth 0.
RECURSIVE NodeCount(_), ForestCount(_)
NodeCount(node) == 1 + ForestCount(Details(node))

ForestCount(forest) ==
  IF forest = <<>> THEN 0 ELSE NodeCount(Head(forest)) + ForestCount(Tail(forest))

C10_BreakdownShape ==
  IsCall("ExplainResult", "get_breakdown") =>
    LET rows == lists[ret.value]
    IN /\ Len(rows) = NodeCount(Tree)
       /\ Len(rows) >= 1
       /\ rows[1][1] = 0
       /\ \A k \in 2..Len(rows) : rows[k][1] >= 1 /\ rows[k][1] <= rows[k - 1][1] + 1
       /\ "explanation" \notin DOMAIN response.body => rows = << <<0, 0, "">> >>
       /\ "details" \notin DOMAIN Tree =>
            rows = << <<0, Get(Tree, "value", 0), Get(Tree, "description", "")>> >>

C10_Witness ==
  /\ IsCall("ExplainResult", "get_breakdown")
  /\ "explanation" \notin DOMAIN response.body
  /\ lists[ret.value] = << <<0, 0, "">> >>

=============================================================================
